---- MODULE Spec2Model ----
(***************************************************************************)
(* Model of the pendulum tracker of src/backend/pendulum_processor.py and  *)
(* of the /stream WebSocket loop of src/backend/app.py, with the          *)
(* statistics passes of the repository and the batch loop of src/main.py. *)
(*                                                                         *)
(* A frame is modelled by what OpenCV extracts from it: the red marker     *)
(* contours of the top half, the white contours of the top half and the    *)
(* orange contours below the 25% line.  Floating point values are kept as  *)
(* exact rationals over fixed denominators:                                *)
(*   center_x           in units of 1/CScale pixel,                        *)
(*   x_roi, y_roi, radius (minEnclosingCircle) in units of 1/2 pixel,      *)
(*   times              in units of 1/TimeScale second.                    *)
(* An Optional value is <<>> (None) or <<v>>.                              *)
(***************************************************************************)
EXTENDS Integers, Sequences, FiniteSets, TLC

\* ------------------------------------------------------------------ bounds
MaxFrames == 5

\* ------------------------------------------------------- program constants
MIN_CONTOUR_AREA == 100
DEAD_ZONE == 5
MIN_MARKER_AREA == 10
MAX_LINE_HEIGHT == 30
DEFAULT_FPS == 30

\* CENTER_ALPHA = 0.8 = AlphaNum / AlphaDen
AlphaNum == 4
AlphaDen == 5

\* denominators of the fixed-point representations
TimeScale == DEFAULT_FPS
CScale == 2 * (AlphaDen ^ MaxFrames)

\* ---------------------------------------------------------------- Optional
Null == <<>>
Some(v) == <<v>>
Val(o) == o[1]

Abs(n) == IF n < 0 THEN 0 - n ELSE n

\* ------------------------------------------------------------------ frames
Marker(a, x, y) == [area |-> a, cx |-> x, cy |-> y]
White(x, y, w, h) == [xw |-> x, yw |-> y, ww |-> w, hw |-> h]
\* x2, y2, r2: centre and radius of the enclosing circle, in half pixels
Blob(a, x2, y2, r2) == [area |-> a, x_roi |-> x2, y_roi |-> y2, radius |-> r2]

MkFrame(ms, ws, cs) ==
    [height |-> 160, width |-> 200,
     markers |-> ms, whites |-> ws, contours |-> cs]

\* marker lists: none, one, two (unsorted: measured centre 100),
\* three with one below the area threshold (measured centre 110)
NoMarkers == <<>>
OneMarker == <<Marker(50, 90, 10)>>
PairA == <<Marker(40, 110, 12), Marker(40, 90, 10)>>
PairB == <<Marker(30, 90, 10), Marker(9, 190, 10), Marker(30, 130, 10)>>

\* white contours: none, one too tall, a qualifying line (line_y = 35)
\* next to a narrower one and a taller one
NoLine == <<>>
BadLine == <<White(0, 20, 150, 30)>>
GoodLine == <<White(5, 50, 90, 4), White(10, 30, 120, 10), White(0, 20, 150, 40)>>

\* orange contours below the 25% line
NoBall == <<>>
SmallBall == <<Blob(100, 190, 100, 12)>>
BallAt(x2) == <<Blob(60, 40, 40, 9), Blob(400, x2, 101, 25), Blob(400, 10, 10, 25)>>

\* int(x_roi) = 94 (left), 95 and 105 (edges of the dead zone around 100), 106 (right)
BallXs == {189, 190, 211, 212}

Frames ==
    {MkFrame(ms, ws, cs) :
        ms \in {NoMarkers, PairA}, ws \in {NoLine}, cs \in {NoBall} \cup {BallAt(x) : x \in BallXs}}
    \cup {MkFrame(OneMarker, BadLine, SmallBall),
          MkFrame(NoMarkers, GoodLine, NoBall),
          MkFrame(PairB, NoLine, NoBall)}

\* a second qualifying line (line_y = 61) after a contour that is too narrow
OtherLine == <<White(60, 10, 80, 6), White(20, 60, 100, 3)>>

\* frames for the pivot location step: every marker list that measures a
\* centre with and without a qualifying line, and frames that measure nothing
PivotFrames ==
    {MkFrame(ms, ws, NoBall) : ms \in {NoMarkers, PairA, PairB}, ws \in {NoLine, GoodLine}}
    \cup {MkFrame(OneMarker, BadLine, BallAt(212)),
          MkFrame(NoMarkers, OtherLine, NoBall)}

\* frames and caller timestamps (in 1/TimeScale s) of the timestamped calls
TsFrames == {MkFrame(NoMarkers, NoLine, NoBall), MkFrame(PairA, GoodLine, BallAt(212))}
Timestamps == {Null, Some(0), Some(60)}

\* ----------------------------------------------------- PendulumProcessor
NewProcessor(fps) ==
    [fps |-> fps,
     frame_idx |-> 0,
     time_series |-> <<>>,
     x_series |-> <<>>,
     y_series |-> <<>>,
     records |-> <<>>,
     center_x |-> Null,
     line_y |-> Null,
     last_side |-> 0,
     sign_changes |-> 0,
     oscillations |-> 0]

\* the centroids of the marker contours that pass the area filter
RECURSIVE puntos_vertices(_)
puntos_vertices(ms) ==
    IF ms = <<>> THEN <<>>
    ELSE IF Head(ms).area < MIN_MARKER_AREA THEN puntos_vertices(Tail(ms))
    ELSE <<[x |-> Head(ms).cx, y |-> Head(ms).cy]>> \o puntos_vertices(Tail(ms))

\* list.sort(key = x): stable insertion into an ascending list
RECURSIVE InsertByX(_, _)
InsertByX(p, s) ==
    IF s = <<>> THEN <<p>>
    ELSE IF p.x < Head(s).x THEN <<p>> \o s
    ELSE <<Head(s)>> \o InsertByX(p, Tail(s))

RECURSIVE SortByX(_)
SortByX(s) ==
    IF s = <<>> THEN <<>>
    ELSE InsertByX(s[Len(s)], SortByX(SubSeq(s, 1, Len(s) - 1)))

\* the loop over the white contours: candidate_line_y, or Null
RECURSIVE LineScan(_, _, _, _)
LineScan(ws, width, max_width, cand) ==
    IF ws = <<>> THEN cand
    ELSE LET c == Head(ws)
         IN IF c.ww > max_width /\ 5 * c.ww > 2 * width /\ c.hw < MAX_LINE_HEIGHT
            THEN LineScan(Tail(ws), width, c.ww, Some(c.yw + (c.hw \div 2)))
            ELSE LineScan(Tail(ws), width, max_width, cand)

candidate_line_y(frame) == LineScan(frame.whites, frame.width, 0, Null)

\* (x_left + x_right) / 2.0, in units of 1/CScale
center_measured(pts) ==
    LET sorted == SortByX(pts)
    IN (sorted[1].x + sorted[Len(sorted)].x) * (CScale \div 2)

SmoothSwapped(prev, measured) ==
    ((AlphaDen - AlphaNum) * prev + AlphaNum * measured) \div AlphaDen

\* CENTER_ALPHA * center_x + (1 - CENTER_ALPHA) * center_measured
Smooth(prev, measured) ==
    (AlphaNum * prev + (AlphaDen - AlphaNum) * measured) \div AlphaDen

UpdateCenterOrForget(center_x, pts) ==
    IF Len(pts) >= 2
    THEN IF center_x = Null
         THEN Some(center_measured(pts))
         ELSE Some(Smooth(Val(center_x), center_measured(pts)))
    ELSE Null

UpdateCenterSmoothFirst(center_x, pts) ==
    IF Len(pts) >= 2
    THEN IF center_x = Null
         THEN Some(Smooth(0, center_measured(pts)))
         ELSE Some(Smooth(Val(center_x), center_measured(pts)))
    ELSE center_x

UpdateCenter(center_x, pts) ==
    IF Len(pts) >= 2
    THEN IF center_x = Null
         THEN Some(center_measured(pts))
         ELSE Some(Smooth(Val(center_x), center_measured(pts)))
    ELSE center_x

UpdateLineOverwrite(line_y, cand) == cand

UpdateLine(line_y, cand) == IF cand # Null THEN cand ELSE line_y

detect_vertices_and_line(self, frame) ==
    [self EXCEPT !.line_y = UpdateLine(@, candidate_line_y(frame)),
                 !.center_x = UpdateCenter(@, puntos_vertices(frame.markers))]

\* max(contours, key = contourArea): the first contour of largest area
RECURSIVE MaxByArea(_)
MaxByArea(cs) ==
    IF Len(cs) = 1 THEN cs[1]
    ELSE LET rest == MaxByArea(SubSeq(cs, 1, Len(cs) - 1))
         IN IF cs[Len(cs)].area > rest.area THEN cs[Len(cs)] ELSE rest

tiempo_sTruthy(self, timestamp) ==
    IF timestamp # Null /\ Val(timestamp) # 0 THEN Val(timestamp)
    ELSE IF self.fps # 0 THEN (self.frame_idx * TimeScale) \div self.fps
    ELSE self.frame_idx * TimeScale

tiempo_s(self, timestamp) ==
    IF timestamp # Null THEN Val(timestamp)
    ELSE IF self.fps # 0 THEN (self.frame_idx * TimeScale) \div self.fps
    ELSE self.frame_idx * TimeScale

DetectedNeedsLine(self, frame) ==
    /\ frame.contours # <<>>
    /\ self.center_x # Null /\ self.line_y # Null
    /\ MaxByArea(frame.contours).area > MIN_CONTOUR_AREA

DetectedAtThreshold(self, frame) ==
    /\ frame.contours # <<>>
    /\ self.center_x # Null
    /\ MaxByArea(frame.contours).area >= MIN_CONTOUR_AREA

\* the guard of the detection branch, evaluated after the pivot step
Detected(self, frame) ==
    /\ frame.contours # <<>>
    /\ self.center_x # Null
    /\ MaxByArea(frame.contours).area > MIN_CONTOUR_AREA

\* x - center_x, in units of 1/CScale
Deviation(x, center_x) == x * CScale - Val(center_x)

SideStrictZone(dx) ==
    IF Abs(dx) < DEAD_ZONE * CScale THEN 0
    ELSE IF dx > 0 THEN 1 ELSE -1

Side(dx) ==
    IF Abs(dx) <= DEAD_ZONE * CScale THEN 0
    ELSE IF dx > 0 THEN 1 ELSE -1

CountSignChangeNoHalving(self, side) ==
    IF self.last_side # 0 /\ side # 0 /\ side # self.last_side
    THEN [self EXCEPT !.sign_changes = @ + 1,
                      !.oscillations = self.sign_changes + 1]
    ELSE self

CountSignChangeModulo(self, side) ==
    IF self.last_side # 0 /\ side # 0 /\ side # self.last_side
    THEN [self EXCEPT !.sign_changes = @ + 1,
                      !.oscillations = (self.sign_changes + 1) % 2]
    ELSE self

CountSignChangeAnySide(self, side) ==
    IF self.last_side # 0 /\ side # self.last_side
    THEN [self EXCEPT !.sign_changes = @ + 1,
                      !.oscillations = (self.sign_changes + 1) \div 2]
    ELSE self

CountSignChange(self, side) ==
    IF self.last_side # 0 /\ side # 0 /\ side # self.last_side
    THEN [self EXCEPT !.sign_changes = @ + 1,
                      !.oscillations = (self.sign_changes + 1) \div 2]
    ELSE self

CommitSideAlways(self, side) == [self EXCEPT !.last_side = side]

CommitSide(self, side) ==
    IF side # 0 THEN [self EXCEPT !.last_side = side] ELSE self

AppendSampleTimeFirst(self, t, x, y, r) ==
    [self EXCEPT !.records = Append(@, <<self.frame_idx, t, x, y, r>>),
                 !.time_series = <<t>> \o @,
                 !.x_series = Append(@, x),
                 !.y_series = Append(@, y)]

AppendSample(self, t, x, y, r) ==
    [self EXCEPT !.records = Append(@, <<self.frame_idx, t, x, y, r>>),
                 !.time_series = Append(@, t),
                 !.x_series = Append(@, x),
                 !.y_series = Append(@, y)]

AdvanceFrameUnlessSample(self) ==
    IF self.records # <<>> /\ self.records[Len(self.records)][1] = self.frame_idx
    THEN self
    ELSE [self EXCEPT !.frame_idx = @ + 1]

AdvanceFrameIfPivot(self) ==
    IF self.center_x = Null THEN self ELSE [self EXCEPT !.frame_idx = @ + 1]

AdvanceFrame(self) == [self EXCEPT !.frame_idx = @ + 1]

InfoOf(self, t, x, y, r) ==
    [time_s |-> t, x |-> x, y |-> y, radius |-> r,
     oscillations |-> self.oscillations,
     center_x |-> self.center_x,
     line_y |-> self.line_y]

\* process_frame: the processor after the call and the info record returned
process_frame(self, frame, timestamp) ==
    LET roi_top == frame.height \div 4
        t == tiempo_s(self, timestamp)
        s1 == detect_vertices_and_line(self, frame)
    IN IF Detected(s1, frame)
       THEN LET c == MaxByArea(frame.contours)
                x == c.x_roi \div 2
                y == (c.y_roi + 2 * roi_top) \div 2
                r == c.radius \div 2
                side == Side(Deviation(x, s1.center_x))
                s2 == CommitSide(CountSignChange(AppendSample(s1, t, x, y, r), side), side)
            IN [self |-> AdvanceFrame(s2),
                info |-> InfoOf(s2, t, Some(x), Some(y), Some(r)),
                detected |-> TRUE,
                dx |-> Some(Deviation(x, s1.center_x))]
       ELSE [self |-> AdvanceFrame(s1),
             info |-> InfoOf(s1, t, Null, Null, Null),
             detected |-> FALSE,
             dx |-> Null]

\* ------------------------------------------------------ WebSocket messages
\* A message is modelled by what decode_ws_message can find in it:
\*   kind       "bytes" or "str"
\*   image      bytes only: Some(frame) when cv2.imdecode reads the buffer
\*   utf8       bytes only: message.decode() succeeds
\*   json       the text starts with "{"
\*   parses     json.loads succeeds
\*   numbers    float() of every fps / timestamp field present succeeds
\*   fps, timestamp, session_id   Optional fields of the payload
\*   frame_b64  Null when payload.get("frame") is missing or empty, else
\*              Some([valid |-> base64.b64decode yields a non-empty buffer,
\*                    image |-> Some(frame) when cv2.imdecode reads it])
\*              (for plain text: the text itself)
B64(valid, image) == Some([valid |-> valid, image |-> image])

BytesMsg(image, utf8, json, b64) ==
    [kind |-> "bytes", image |-> image, utf8 |-> utf8, json |-> json, parses |-> json,
     numbers |-> TRUE, fps |-> Null, timestamp |-> Null, session_id |-> Null,
     frame_b64 |-> b64]

TextMsg(b64) ==
    [kind |-> "str", image |-> Null, utf8 |-> TRUE, json |-> FALSE, parses |-> FALSE,
     numbers |-> TRUE, fps |-> Null, timestamp |-> Null, session_id |-> Null,
     frame_b64 |-> b64]

JsonMsg(parses, numbers, fps, timestamp, session_id, b64) ==
    [kind |-> "str", image |-> Null, utf8 |-> TRUE, json |-> TRUE, parses |-> parses,
     numbers |-> numbers, fps |-> fps, timestamp |-> timestamp, session_id |-> session_id,
     frame_b64 |-> b64]

SessionIds == {"s1", "s2"}

FrameRight == MkFrame(PairA, GoodLine, BallAt(212))
FrameLeft == MkFrame(NoMarkers, NoLine, BallAt(189))
FrameEmpty == MkFrame(NoMarkers, NoLine, NoBall)

\* messages that carry a frame
GoodMessages ==
    {JsonMsg(TRUE, TRUE, Null, Null, Some("s1"), B64(TRUE, Some(FrameRight))),
     JsonMsg(TRUE, TRUE, Some(15), Null, Some("s1"), B64(TRUE, Some(FrameLeft))),
     JsonMsg(TRUE, TRUE, Null, Some(60), Null, B64(TRUE, Some(FrameRight))),
     JsonMsg(TRUE, TRUE, Null, Null, Some("s1"), B64(TRUE, Some(FrameEmpty))),
     TextMsg(B64(TRUE, Some(FrameEmpty))),
     BytesMsg(Some(FrameLeft), FALSE, FALSE, Null)}

\* messages that carry no frame: undecodable bytes, invalid base64, JSON that
\* does not parse, JSON without 'frame', JSON with a non-numeric fps, and
\* valid base64 of something that is not an image (plain, in JSON, in bytes)
BadMessages ==
    {BytesMsg(Null, FALSE, FALSE, Null),
     TextMsg(B64(FALSE, Null)),
     JsonMsg(FALSE, TRUE, Null, Null, Null, Null),
     JsonMsg(TRUE, TRUE, Null, Null, Some("s1"), Null),
     JsonMsg(TRUE, FALSE, Some(15), Null, Null, B64(TRUE, Some(FrameRight))),
     TextMsg(B64(TRUE, Null)),
     JsonMsg(TRUE, TRUE, Some(15), Null, Some("s1"), B64(TRUE, Null)),
     BytesMsg(Null, TRUE, FALSE, B64(TRUE, Null))}

Messages == GoodMessages \cup BadMessages

\* b64_to_frame: base64.b64decode raises on invalid input; cv2.imdecode
\* returns None (Null) for a buffer that is not an image
b64_to_frame(b64) ==
    IF ~Val(b64).valid
    THEN [raised |-> TRUE, frame |-> Null]
    ELSE [raised |-> FALSE, frame |-> Val(b64).image]

\* the text branches of decode_ws_message
decode_text(m) ==
    IF m.json
    THEN IF ~m.parses \/ ~m.numbers \/ m.frame_b64 = Null
         THEN [raised |-> TRUE, frame |-> Null, fps_override |-> Null, timestamp |-> Null]
         ELSE [raised |-> b64_to_frame(m.frame_b64).raised,
               frame |-> b64_to_frame(m.frame_b64).frame,
               fps_override |-> m.fps, timestamp |-> m.timestamp]
    ELSE [raised |-> b64_to_frame(m.frame_b64).raised,
          frame |-> b64_to_frame(m.frame_b64).frame,
          fps_override |-> Null, timestamp |-> Null]

\* decode_ws_message: raised, or (frame, fps_override, timestamp) where frame
\* may be Null (None)
decode_ws_message(m) ==
    IF m.kind = "bytes"
    THEN IF m.image # Null
         THEN [raised |-> FALSE, frame |-> m.image, fps_override |-> Null, timestamp |-> Null]
         ELSE IF ~m.utf8
              THEN [raised |-> TRUE, frame |-> Null, fps_override |-> Null, timestamp |-> Null]
              ELSE decode_text(m)
    ELSE decode_text(m)

\* the session_id the loop reads from the received data itself
SessionIdOf(m) == IF m.kind = "str" /\ m.json THEN m.session_id ELSE Null

\* ------------------------------------------------------------------- state
VARIABLES
    proc,       \* one PendulumProcessor driven directly through process_frame
    info,       \* Optional: the info record returned by the last call
    infos,      \* history: the 'oscillations' value of every info record returned
    dx_log,     \* history: x - center_x of every detection, in call order
    last_call,  \* history: what the last call saw (Optional)
    conns,      \* per /stream connection: pc, local processor, touched_sessions, replies sent
    session_store,          \* session id -> Optional PendulumProcessor
    session_csv_writers,    \* session id -> Optional [open, rows]
    last_recv,  \* history: the last message a /stream loop handled (Optional)
    in_frame,   \* per connection: Optional call of process_frame that has begun and not returned
    pivot_log,  \* history: the frames given to process_frame, in call order
    stats_in,   \* the sample series handed to the statistics functions
    stats_out,  \* Optional: the last statistics function applied and what it returned
    last_msg,   \* history: the fields of the last message a session loop handled (Optional)
    batch       \* Optional: the module-level state of main.py while its loop runs

trackerVars == <<proc, info, infos, dx_log, last_call>>
streamVars == <<conns, session_store, session_csv_writers, last_recv>>
auxVars == <<in_frame, pivot_log, stats_in, stats_out, last_msg, batch>>
vars == <<proc, info, infos, dx_log, last_call,
          conns, session_store, session_csv_writers, last_recv,
          in_frame, pivot_log, stats_in, stats_out, last_msg, batch>>

FpsValues == {0, DEFAULT_FPS}

Conns == {1, 2}

\* bound on the messages received over all connections
MaxMsgs == 3

IdleConn == [pc |-> "idle", processor |-> Null, touched_sessions |-> {},
             received |-> 0, sent |-> <<>>]

InitStream ==
    /\ conns = [c \in Conns |-> IdleConn]
    /\ session_store = [sid \in SessionIds |-> Null]
    /\ session_csv_writers = [sid \in SessionIds |-> Null]
    /\ last_recv = Null
    /\ in_frame = [c \in Conns |-> Null]
    /\ last_msg = Null

InitTracker ==
    /\ info = Null
    /\ infos = <<>>
    /\ dx_log = <<>>
    /\ last_call = Null
    /\ pivot_log = <<>>
    /\ batch = Null

\* no statistics requested
NoSeries == [times |-> <<>>, theta |-> <<>>, window |-> Null]

InitNoStats ==
    /\ stats_in = NoSeries
    /\ stats_out = Null

Init ==
    /\ proc = NewProcessor(DEFAULT_FPS)
    /\ InitTracker
    /\ InitStream
    /\ InitNoStats

\* PendulumProcessor(fps = f) for the frame rates of FpsValues
InitTs ==
    /\ proc \in {NewProcessor(f) : f \in FpsValues}
    /\ InitTracker
    /\ InitStream
    /\ InitNoStats

\* one call of proc.process_frame and what the histories record of it
Call(frame, timestamp) ==
    /\ proc.frame_idx < MaxFrames
    /\ LET res == process_frame(proc, frame, timestamp)
       IN /\ proc' = res.self
          /\ info' = Some(res.info)
          /\ infos' = Append(infos, res.info.oscillations)
          /\ dx_log' = IF res.detected THEN Append(dx_log, Val(res.dx)) ELSE dx_log
          /\ last_call' = Some([timestamp |-> timestamp,
                                contours |-> Len(frame.contours),
                                big |-> frame.contours # <<>>
                                        /\ MaxByArea(frame.contours).area > MIN_CONTOUR_AREA,
                                pivot |-> detect_vertices_and_line(proc, frame).center_x # Null,
                                detected |-> res.detected])

ProcessFrame(frame, timestamp) ==
    /\ Call(frame, timestamp)
    /\ UNCHANGED streamVars
    /\ UNCHANGED auxVars

Next == \E frame \in Frames : ProcessFrame(frame, Null)

Spec == Init /\ [][Next]_vars

\* process_frame called with and without a caller-supplied timestamp
NextTs == \E frame \in TsFrames, timestamp \in Timestamps : ProcessFrame(frame, timestamp)

SpecTs == InitTs /\ [][NextTs]_vars

\* process_frame called on frames that differ in markers and lines
PivotFrame(frame) ==
    /\ Call(frame, Null)
    /\ pivot_log' = Append(pivot_log, frame)
    /\ UNCHANGED streamVars
    /\ UNCHANGED <<in_frame, stats_in, stats_out, last_msg, batch>>

NextPivot == \E frame \in PivotFrames : PivotFrame(frame)

SpecPivot == Init /\ [][NextPivot]_vars

\* ------------------------------------------------- main.py: batch loop
\* The script's module-level variables after the set-up and before the loop.
\* fps, width and height are what the opened video reports; csv_rows are the
\* lists handed to csv_writer.writerow; running is FALSE once the loop has
\* been left, and quit tells whether it was left by the "q" key.
main_setup(fps, width, height) ==
    [fps |-> fps, width |-> width, height |-> height,
     ROI_TOP |-> height \div 4,
     frame_idx |-> 0,
     csv_rows |-> <<<<"frame", "tiempo_s", "x", "y", "radio">>>>,
     time_series |-> <<>>,
     x_series |-> <<>>,
     y_series |-> <<>>,
     last_side |-> 0,
     sign_changes |-> 0,
     oscillations |-> 0,
     center_x |-> Null,
     line_y |-> Null,
     running |-> TRUE,
     quit |-> FALSE]

main_tiempo_sNextFrame(g) == ((g.frame_idx + 1) * TimeScale) \div g.fps

\* tiempo_s = frame_idx / fps, in units of 1/TimeScale
main_tiempo_s(g) == (g.frame_idx * TimeScale) \div g.fps

\* the loop over conts_center: contours with area < 10 are skipped
RECURSIVE main_puntos_vertices(_)
main_puntos_vertices(ms) ==
    IF ms = <<>> THEN <<>>
    ELSE LET c == Head(ms)
         IN IF c.area < 10 THEN main_puntos_vertices(Tail(ms))
            ELSE <<[x |-> c.cx, y |-> c.cy]>> \o main_puntos_vertices(Tail(ms))

\* the loop over conts_white: ww > max_width and ww > width * 0.4 and hw < 30
RECURSIVE main_candidate_line_y(_, _, _, _)
main_candidate_line_y(ws, width, max_width, cand) ==
    IF ws = <<>> THEN cand
    ELSE LET c == Head(ws)
         IN IF c.ww > max_width /\ 10 * c.ww > 4 * width /\ c.hw < 30
            THEN main_candidate_line_y(Tail(ws), width, c.ww, Some(c.yw + (c.hw \div 2)))
            ELSE main_candidate_line_y(Tail(ws), width, max_width, cand)

\* part 1 of the loop body: line_y and center_x (CENTER_ALPHA = 0.8 = 4/5)
main_pivot(g, frame) ==
    LET pts == SortByX(main_puntos_vertices(frame.markers))
        cand == main_candidate_line_y(frame.whites, g.width, 0, Null)
        measured == ((pts[1].x + pts[Len(pts)].x) * CScale) \div 2
        g1 == IF cand # Null THEN [g EXCEPT !.line_y = cand] ELSE g
    IN IF Len(pts) >= 2
       THEN IF g1.center_x = Null
            THEN [g1 EXCEPT !.center_x = Some(measured)]
            ELSE [g1 EXCEPT !.center_x =
                      Some((4 * Val(g1.center_x) + (5 - 4) * measured) \div 5)]
       ELSE g1

\* part 2 of the loop body: the ball, the csv row, the oscillation count and
\* the series of the live plot (MIN_CONTOUR_AREA = 100, DEAD_ZONE = 5)
main_ball(g, frame, t) ==
    IF frame.contours # <<>> /\ g.center_x # Null
    THEN LET c == MaxByArea(frame.contours)
             x == c.x_roi \div 2
             y == (c.y_roi + 2 * g.ROI_TOP) \div 2
             r == c.radius \div 2
             dx == x * CScale - Val(g.center_x)
             side == IF Abs(dx) <= 5 * CScale THEN 0
                     ELSE IF dx > 0 THEN 1 ELSE -1
             change == g.last_side # 0 /\ side # 0 /\ side # g.last_side
         IN IF c.area > 100
            THEN [g EXCEPT
                    !.csv_rows = Append(@, <<g.frame_idx, t, x, y, r>>),
                    !.sign_changes = IF change THEN @ + 1 ELSE @,
                    !.oscillations = IF change THEN (g.sign_changes + 1) \div 2 ELSE @,
                    !.last_side = IF side # 0 THEN side ELSE @,
                    !.time_series = Append(@, t),
                    !.x_series = Append(@, x),
                    !.y_series = Append(@, y)]
            ELSE g
    ELSE g

\* the end of the loop body: the "q" key leaves the loop before frame_idx += 1
main_advance(g, q) ==
    IF q THEN [g EXCEPT !.running = FALSE, !.quit = TRUE]
    ELSE [g EXCEPT !.frame_idx = @ + 1]

\* one iteration of "while True" for which cap.read() returned a frame
main_loop(g, frame, q) ==
    main_advance(main_ball(main_pivot(g, frame), frame, main_tiempo_s(g)), q)

\* cap.read() returned ret = False: break
main_break(g) == [g EXCEPT !.running = FALSE]

\* the frames of the video: pivots measured and smoothed, lines found and
\* missed, the ball on both sides of the pivot, on the edge of the dead zone,
\* too small and absent
BatchFrames ==
    {MkFrame(PairA, GoodLine, BallAt(212)),
     MkFrame(NoMarkers, NoLine, BallAt(189)),
     MkFrame(PairB, OtherLine, BallAt(190)),
     MkFrame(NoMarkers, NoLine, BallAt(212)),
     MkFrame(OneMarker, BadLine, SmallBall),
     MkFrame(NoMarkers, NoLine, NoBall)}

\* the frame rates of the video: nonzero
BatchFps == {DEFAULT_FPS \div 2, DEFAULT_FPS}

\* main.py reads a video while one PendulumProcessor with the same fps is
\* given the same frames without timestamps
InitBatch ==
    /\ \E fps \in BatchFps :
         /\ proc = NewProcessor(fps)
         /\ batch = Some(main_setup(fps, 200, 160))
    /\ info = Null
    /\ infos = <<>>
    /\ dx_log = <<>>
    /\ last_call = Null
    /\ pivot_log = <<>>
    /\ InitStream
    /\ InitNoStats

BatchFrame(frame, q) ==
    /\ Val(batch).running
    /\ Call(frame, Null)
    /\ batch' = Some(main_loop(Val(batch), frame, q))
    /\ UNCHANGED streamVars
    /\ UNCHANGED <<in_frame, pivot_log, stats_in, stats_out, last_msg>>

BatchEnd ==
    /\ Val(batch).running
    /\ batch' = Some(main_break(Val(batch)))
    /\ UNCHANGED trackerVars
    /\ UNCHANGED streamVars
    /\ UNCHANGED <<in_frame, pivot_log, stats_in, stats_out, last_msg>>

NextBatch ==
    \/ \E frame \in BatchFrames, q \in BOOLEAN : BatchFrame(frame, q)
    \/ BatchEnd

SpecBatch == InitBatch /\ [][NextBatch]_vars

\* ------------------------------------------------------------- csv export
CSV_HEADER == <<"frame", "tiempo_s", "x", "y", "radio">>

\* str(n) of a non-negative int: its decimal digits
RECURSIVE Digits(_)
Digits(n) == IF n < 10 THEN <<n>> ELSE Append(Digits(n \div 10), n % 10)

RECURSIVE FromDigits(_)
FromDigits(ds) ==
    IF ds = <<>> THEN 0 ELSE 10 * FromDigits(SubSeq(ds, 1, Len(ds) - 1)) + ds[Len(ds)]

\* the cell csv.writer writes for an int, and int(cell)
IntCell(n) == [neg |-> n < 0, digits |-> Digits(Abs(n))]

ParseInt(c) == IF c.neg THEN 0 - FromDigits(c.digits) ELSE FromDigits(c.digits)

\* the cell csv.writer writes for a float time (repr): the whole seconds in
\* digits and the fraction in 1/TimeScale s; float(cell) reads it back
FloatCell(t) ==
    [neg |-> t < 0, digits |-> Digits(Abs(t) \div TimeScale), frac |-> Abs(t) % TimeScale]

ParseFloat(c) ==
    IF c.neg THEN 0 - (FromDigits(c.digits) * TimeScale + c.frac)
    ELSE FromDigits(c.digits) * TimeScale + c.frac

RowCells(rec) ==
    <<IntCell(rec[1]), FloatCell(rec[2]), IntCell(rec[3]), IntCell(rec[4]), IntCell(rec[5])>>

export_csvNoHeader(self) == [i \in 1..Len(self.records) |-> RowCells(self.records[i])]

\* PendulumProcessor.export_csv: the header row, then one row per record
export_csv(self) ==
    <<CSV_HEADER>> \o [i \in 1..Len(self.records) |-> RowCells(self.records[i])]

\* csv.reader: header = next(reader, None), then the rows of at least 5 cells
read_csv(file) ==
    LET rows == IF file = <<>> THEN <<>> ELSE Tail(file)
    IN SelectSeq(rows, LAMBDA row : Len(row) >= 5)

ParseRow(row) ==
    <<ParseInt(row[1]), ParseFloat(row[2]), ParseInt(row[3]), ParseInt(row[4]), ParseInt(row[5])>>

\* the tracker writes its records to a file
ExportCsv ==
    /\ stats_out' = Some([fn |-> "export_csv", result |-> export_csv(proc)])
    /\ UNCHANGED <<stats_in, in_frame, pivot_log, last_msg, batch>>
    /\ UNCHANGED trackerVars
    /\ UNCHANGED streamVars

NextExport ==
    \/ \E frame \in TsFrames, timestamp \in Timestamps : ProcessFrame(frame, timestamp)
    \/ ExportCsv

SpecExport == InitTs /\ [][NextExport]_vars

\* ------------------------------------------------------------- statistics
\* A series is what the statistics pass works on: the sample times and the
\* centred angle signal theta - mean(theta) that lines 83-94 derive from the
\* positions (smoothing, arctan2 and centring give an arbitrary real series;
\* it is drawn from Values). window is the --window option of pendulo_fisica.
MaxSamples == 5
MaxCount == 53
POLYORDER == 3
Values == {-2, -1, 0, 1}

\* times are in units of 1/CrossScale of a frame period, so that every
\* interpolated crossing of two values of Values is a whole number
CrossScale == 6

TimesOf(n) == [i \in 1..n |-> (i - 1) * CrossScale]

ShortSeries ==
    UNION {{[times |-> TimesOf(n), theta |-> th, window |-> Null] : th \in [1..n -> Values]}
              : n \in 0..MaxSamples}

Windows == {Null, Some(3), Some(7)}

LongSeries ==
    {[times |-> TimesOf(n), theta |-> [i \in 1..n |-> 1], window |-> w] :
        n \in (MaxSamples + 1)..MaxCount, w \in Windows}

Series == ShortSeries \cup LongSeries

\* what iteration i of the loop appends to crossings: nothing or one time
\* (frac = -y1 / (y2 - y1) lies in 0..1 whenever y1 * y2 < 0)
SegmentCrossing(times, signal, i) ==
    LET y1 == signal[i]
        y2 == signal[i + 1]
    IN IF y1 = 0 /\ y2 = 0 THEN <<>>
       ELSE IF y1 = 0 THEN <<times[i]>>
       ELSE IF y2 = 0 THEN <<times[i + 1]>>
       ELSE IF y1 * y2 < 0
            THEN <<times[i] + (Abs(y1) * (times[i + 1] - times[i]))
                                 \div (Abs(y1) + Abs(y2))>>
            ELSE <<>>

\* for i in range(len(signal) - 1): the appended times in the order of i
_zero_crossings(times, signal) ==
    LET hits == {i \in 1..(Len(signal) - 1) : SegmentCrossing(times, signal, i) # <<>>}
    IN [k \in 1..Cardinality(hits) |->
          LET i == CHOOSE h \in hits : Cardinality({j \in hits : j <= h}) = k
          IN SegmentCrossing(times, signal, i)[1]]

\* np.diff
Diff(s) == [i \in 1..(Len(s) - 1) |-> s[i + 1] - s[i]]

RECURSIVE SortNum(_)
SortNum(s) ==
    IF s = <<>> THEN <<>>
    ELSE LET m == CHOOSE i \in 1..Len(s) : \A j \in 1..Len(s) : s[i] <= s[j]
         IN <<s[m]>> \o SortNum([i \in 1..(Len(s) - 1) |-> IF i < m THEN s[i] ELSE s[i + 1]])

\* np.median(s) * 2 of a non-empty s
MedianTimes2(s) ==
    LET o == SortNum(s)
        n == Len(o)
    IN IF n % 2 = 1 THEN 2 * o[(n + 1) \div 2] ELSE o[n \div 2] + o[(n \div 2) + 1]

PeriodOf(crossings) ==
    LET half_periods == IF Len(crossings) >= 2 THEN Diff(crossings) ELSE <<>>
    IN IF half_periods # <<>> THEN Some(MedianTimes2(half_periods)) ELSE Null

FrequencyOfAnyPeriod(period) ==
    IF period # Null
    THEN Some([num |-> CrossScale, den |-> Val(period)])
    ELSE Null

\* 1.0 / period if period and period > 0 else None, as a fraction per frame
FrequencyOf(period) ==
    IF period # Null /\ Val(period) # 0 /\ Val(period) > 0
    THEN Some([num |-> CrossScale, den |-> Val(period)])
    ELSE Null

\* 2 * np.pi / period if period and period > 0 else None, in units of pi
AngularFrequencyOf(period) ==
    IF period # Null /\ Val(period) # 0 /\ Val(period) > 0
    THEN Some([num_pi |-> 2 * CrossScale, den |-> Val(period)])
    ELSE Null

\* the statistics both modules compute from the crossings of the series
StatsOf(times, theta) ==
    LET crossings == _zero_crossings(times, theta)
        period == PeriodOf(crossings)
    IN [kind |-> "stats",
        total_time |-> IF Len(times) > 1 THEN times[Len(times)] - times[1] ELSE 0,
        samples |-> Len(times),
        oscillations_x2 |-> Len(crossings),
        period |-> period,
        frequency |-> FrequencyOf(period),
        angular_frequency |-> AngularFrequencyOf(period)]

NoStats == [kind |-> "none"]

Raised(error) == [kind |-> "raise", error |-> error]

\* pendulum_processor._compute_physical_stats and main._compute_physical_stats
_compute_physical_stats(times, theta) ==
    IF Len(times) < 3 THEN NoStats ELSE StatsOf(times, theta)

\* PendulumProcessor.get_stats; theta is the centred angle signal of
\* self.x_series and self.y_series about the pivot
get_stats(self, theta) == _compute_physical_stats(self.time_series, theta)

\* pendulo_fisica.compute_stats: an empty CSV raises, np.gradient(t) raises on
\* a single sample, any longer series is analysed
compute_stats(times, theta) ==
    IF Len(times) = 0 THEN Raised("ValueError: El CSV no contiene datos.")
    ELSE IF Len(times) < 2 THEN Raised("ValueError: np.gradient")
    ELSE StatsOf(times, theta)

\* scipy.signal.savgol_filter(values, window_length, polyorder): the fitted
\* series, kept as a term
savgol_filter(values, window) ==
    [filtered |-> values, window_length |-> window, polyorder |-> POLYORDER]

PassThrough(values, window) == [called |-> FALSE, window |-> window, values |-> values]

Filtered(values, window) ==
    [called |-> TRUE, window |-> Some(window), values |-> savgol_filter(values, window)]

_savgol_or_originalWholeCount(values) ==
    LET count == Len(values)
        default == IF count > 50 THEN 41 ELSE 9
        window == IF default >= count THEN count ELSE default
    IN IF count < POLYORDER + 2 THEN PassThrough(values, Null)
       ELSE IF window < POLYORDER + 2 THEN PassThrough(values, Some(window))
       ELSE Filtered(values, window)

\* pendulum_processor._savgol_or_original and main._savgol_or_original
_savgol_or_original(values) ==
    LET count == Len(values)
        default == IF count > 50 THEN 41 ELSE 9
        window == IF default >= count
                  THEN (IF count % 2 = 1 THEN count ELSE count - 1)
                  ELSE default
    IN IF count < POLYORDER + 2 THEN PassThrough(values, Null)
       ELSE IF window < POLYORDER + 2 THEN PassThrough(values, Some(window))
       ELSE Filtered(values, window)

_savgolGuardPolyorder(values, window) ==
    LET given == IF window = Null THEN (IF Len(values) > 50 THEN 41 ELSE 9) ELSE Val(window)
        capped == IF given <= Len(values) - 1 THEN given ELSE Len(values) - 1
        odd == IF capped % 2 = 0 THEN capped - 1 ELSE capped
    IN IF odd < POLYORDER THEN PassThrough(values, Some(odd)) ELSE Filtered(values, odd)

\* pendulo_fisica._savgol
_savgol(values, window) ==
    LET given == IF window = Null THEN (IF Len(values) > 50 THEN 41 ELSE 9) ELSE Val(window)
        capped == IF given <= Len(values) - 1 THEN given ELSE Len(values) - 1
        odd == IF capped % 2 = 0 THEN capped - 1 ELSE capped
    IN IF odd < POLYORDER + 2 THEN PassThrough(values, Some(odd)) ELSE Filtered(values, odd)

\* graficar.py: the window, then savgol_filter without a guard (it raises
\* unless polyorder < window_length)
graficar_window(n) ==
    LET default == IF n > 50 THEN 41 ELSE 9
    IN IF default >= n
       THEN (IF (n - 1) % 2 = 1 THEN n - 1 ELSE n - 2)
       ELSE default

graficar_smooth(values) ==
    LET window == graficar_window(Len(values))
    IN IF window <= POLYORDER
       THEN [called |-> TRUE, window |-> Some(window),
             values |-> Raised("ValueError: polyorder must be less than window_length")]
       ELSE Filtered(values, window)

\* a tracker that has collected the samples of the series s
TrackerWith(s) ==
    [NewProcessor(DEFAULT_FPS) EXCEPT
        !.frame_idx = Len(s.times),
        !.center_x = Some(0),
        !.time_series = s.times,
        !.x_series = s.theta,
        !.y_series = [i \in 1..Len(s.times) |-> 0],
        !.records = [i \in 1..Len(s.times) |-> <<i - 1, s.times[i], s.theta[i], 0, 0>>]]

InitStats ==
    /\ stats_in \in Series
    /\ stats_out = Null
    /\ proc = TrackerWith(stats_in)
    /\ InitTracker
    /\ InitStream

\* one function of the statistics pass is applied to the series
Apply(fn, result) ==
    /\ stats_out = Null
    /\ stats_out' = Some([fn |-> fn, result |-> result])
    /\ UNCHANGED <<stats_in, in_frame, pivot_log, last_msg, batch>>
    /\ UNCHANGED trackerVars
    /\ UNCHANGED streamVars

ZeroCrossings == Apply("_zero_crossings", _zero_crossings(stats_in.times, stats_in.theta))

get_stats_callStoresPivot(self, theta) ==
    [self |-> [self EXCEPT !.line_y = IF @ = Null THEN Some(120) ELSE @],
     result |-> get_stats(self, theta)]

\* the tracker after get_stats, and what it returns: lines 330-333 and 77-126
\* assign no attribute of self and work on copies (np.array) of the series
get_stats_call(self, theta) == [self |-> self, result |-> get_stats(self, theta)]

GetStats ==
    /\ stats_out = Null
    /\ LET call == get_stats_call(proc, stats_in.theta)
       IN /\ proc' = call.self
          /\ stats_out' = Some([fn |-> "get_stats", result |-> call.result])
    /\ UNCHANGED <<info, infos, dx_log, last_call>>
    /\ UNCHANGED <<stats_in, in_frame, pivot_log, last_msg, batch>>
    /\ UNCHANGED streamVars

PhysicalStats ==
    Apply("_compute_physical_stats", _compute_physical_stats(stats_in.times, stats_in.theta))

ComputeStats == Apply("compute_stats", compute_stats(stats_in.times, stats_in.theta))

SavgolOrOriginal == Apply("_savgol_or_original", _savgol_or_original(stats_in.theta))

Savgol == Apply("_savgol", _savgol(stats_in.theta, stats_in.window))

Graficar == Apply("graficar", graficar_smooth(stats_in.theta))

\* ---- pendulo_fisica.compute_stats with the length options
\* length_px is the mean distance of the samples from the pivot; the options
\* --pixels-per-meter and --length-m are absent, 0 or a positive number
LengthOptions == {Null, Some(0), Some(2)}

LengthSeries ==
    UNION {{[times |-> TimesOf(n), theta |-> th, window |-> Null,
             length_px |-> px, pixels_per_meter |-> ppm, known_length_m |-> known] :
                th \in [1..n -> Values], px \in {0, 8},
                ppm \in LengthOptions, known \in LengthOptions}
              : n \in 1..3}

length_m_ofRatioFirst(length_px, pixels_per_meter, known_length_m) ==
    IF pixels_per_meter # Null /\ Val(pixels_per_meter) # 0
    THEN Some(length_px \div Val(pixels_per_meter))
    ELSE IF known_length_m # Null /\ Val(known_length_m) # 0 THEN known_length_m
    ELSE Null

\* lines 116-120: 'if known_length_m' and 'elif pixels_per_meter' test truth
length_m_of(length_px, pixels_per_meter, known_length_m) ==
    IF known_length_m # Null /\ Val(known_length_m) # 0 THEN known_length_m
    ELSE IF pixels_per_meter # Null /\ Val(pixels_per_meter) # 0
         THEN Some(length_px \div Val(pixels_per_meter))
         ELSE Null

\* lines 122-124: 4 pi^2 length_m / period^2 'if period and length_m'
g_estimate_of(period, length_m) ==
    IF period # Null /\ Val(period) # 0 /\ length_m # Null /\ Val(length_m) # 0
    THEN Some([four_pi2_times |-> Val(length_m) * CrossScale * CrossScale,
               over |-> Val(period) * Val(period)])
    ELSE Null

\* lines 132-136: length_m times the angular maximum 'if length_m'
linear_max_of(length_m, angular) ==
    IF length_m # Null /\ Val(length_m) # 0
    THEN Some([length_m |-> Val(length_m), times |-> angular])
    ELSE Null

\* compute_stats with its options; the angular maxima are kept as names
compute_stats_with_length(s) ==
    LET base == compute_stats(s.times, s.theta)
        length_m == length_m_of(s.length_px, s.pixels_per_meter, s.known_length_m)
    IN IF base.kind # "stats" THEN base
       ELSE [kind |-> "stats",
             samples |-> base.samples,
             period |-> base.period,
             length_px |-> s.length_px,
             length_m |-> length_m,
             g_estimate |-> g_estimate_of(base.period, length_m),
             max_linear_velocity |-> linear_max_of(length_m, "max_ang_velocity"),
             max_linear_acceleration |-> linear_max_of(length_m, "max_ang_acceleration")]

InitLength ==
    /\ stats_in \in LengthSeries
    /\ stats_out = Null
    /\ proc = NewProcessor(DEFAULT_FPS)
    /\ InitTracker
    /\ InitStream

ComputeStatsWithLength ==
    Apply("compute_stats", compute_stats_with_length(stats_in))

SpecLength == InitLength /\ [][ComputeStatsWithLength]_vars

NextStats ==
    \/ ZeroCrossings
    \/ GetStats
    \/ PhysicalStats
    \/ ComputeStats
    \/ SavgolOrOriginal
    \/ Savgol
    \/ Graficar

SpecStats == InitStats /\ [][NextStats]_vars

\* ------------------------------------------------------------ /stream loop
\* a client connects: stream(ws) starts with a fresh local processor
Connect(c) ==
    /\ conns[c].pc = "idle"
    /\ conns' = [conns EXCEPT ![c] = [IdleConn EXCEPT !.pc = "open",
                                                      !.processor = Some(NewProcessor(DEFAULT_FPS))]]
    /\ UNCHANGED <<session_store, session_csv_writers, last_recv>>
    /\ UNCHANGED trackerVars
    /\ UNCHANGED auxVars

\* processor.fps = fps_override when the override is truthy
ApplyFps(processor, fps_override) ==
    IF fps_override # Null /\ Val(fps_override) # 0
    THEN [processor EXCEPT !.fps = Val(fps_override)]
    ELSE processor

SetDefaultEverySession(store, sid, processor) ==
    [s \in SessionIds |-> IF store[s] = Null THEN Some(NewProcessor(processor.fps)) ELSE store[s]]

\* session_store.setdefault(session_id, PendulumProcessor(fps = processor.fps))
SetDefault(store, sid, processor) ==
    IF store[sid] = Null
    THEN [store EXCEPT ![sid] = Some(NewProcessor(processor.fps))]
    ELSE store

\* session_csv_writers after the lookup of lines 103-110
OpenWriter(writers, sid) ==
    IF writers[sid] = Null
    THEN [writers EXCEPT ![sid] = Some([open |-> TRUE, rows |-> <<CSV_HEADER>>])]
    ELSE writers

RECURSIVE SumReceived(_)
SumReceived(cs) ==
    IF cs = {} THEN 0
    ELSE LET c == CHOOSE x \in cs : TRUE
         IN conns[c].received + SumReceived(cs \ {c})

\* the message holds an image that cv2.imdecode can read
CarriesFrame(m) ==
    \/ m.kind = "bytes" /\ m.image # Null
    \/ /\ m.kind = "str" \/ m.utf8
       /\ m.json => m.parses
       /\ m.frame_b64 # Null
       /\ Val(m.frame_b64).valid
       /\ Val(m.frame_b64).image # Null

Handled(c, m, entered) ==
    Some([conn |-> c, carries_frame |-> CarriesFrame(m), entered |-> entered])

\* one iteration of the loop for a received message m
Recv(c, m) ==
    /\ conns[c].pc = "open"
    /\ SumReceived(Conns) < MaxMsgs
    /\ LET dec == decode_ws_message(m)
           session_id == SessionIdOf(m)
           local == ApplyFps(Val(conns[c].processor), dec.fps_override)
           store1 == IF session_id # Null
                     THEN SetDefault(session_store, Val(session_id), local)
                     ELSE session_store
           touched == IF session_id # Null
                      THEN conns[c].touched_sessions \cup {Val(session_id)}
                      ELSE conns[c].touched_sessions
           target == IF session_id # Null THEN Val(store1[Val(session_id)]) ELSE local
       IN IF dec.raised
          THEN \* except Exception: send the error and continue
               /\ conns' = [conns EXCEPT ![c].received = @ + 1,
                                         ![c].sent = Append(@, [kind |-> "error"])]
               /\ UNCHANGED <<session_store, session_csv_writers>>
               /\ last_recv' = Handled(c, m, FALSE)
          ELSE IF dec.frame = Null
          THEN \* process_frame(None): frame.shape raises, nothing catches it
               /\ conns' = [conns EXCEPT ![c].received = @ + 1,
                                         ![c].processor = Some(local),
                                         ![c].touched_sessions = touched,
                                         ![c].pc = "crashed"]
               /\ session_store' = store1
               /\ UNCHANGED session_csv_writers
               /\ last_recv' = Handled(c, m, TRUE)
          ELSE LET res == process_frame(target, Val(dec.frame), dec.timestamp)
                   store2 == IF session_id # Null
                             THEN [store1 EXCEPT ![Val(session_id)] = Some(res.self)]
                             ELSE store1
                   local2 == IF session_id # Null THEN local ELSE res.self
                   writers1 == IF session_id # Null
                               THEN OpenWriter(session_csv_writers, Val(session_id))
                               ELSE session_csv_writers
                   writes == session_id # Null /\ res.self.records # <<>>
                   closed == writes /\ ~Val(writers1[Val(session_id)]).open
                   writers2 == IF writes /\ ~closed
                               THEN [writers1 EXCEPT ![Val(session_id)] =
                                       Some([Val(@) EXCEPT !.rows =
                                               Append(@, res.self.records[Len(res.self.records)])])]
                               ELSE writers1
                   reply == IF m.kind = "str" /\ m.json
                            THEN [kind |-> "json", info |-> res.info, session_id |-> session_id]
                            ELSE [kind |-> "frame"]
               IN /\ conns' = [conns EXCEPT ![c].received = @ + 1,
                                            ![c].processor = Some(local2),
                                            ![c].touched_sessions = touched,
                                            ![c].pc = IF closed THEN "crashed" ELSE "open",
                                            ![c].sent = IF closed THEN @ ELSE Append(@, reply)]
                  /\ session_store' = store2
                  /\ session_csv_writers' = writers2
                  /\ last_recv' = Handled(c, m, TRUE)
    /\ UNCHANGED trackerVars

Receive(c, m) ==
    /\ Recv(c, m)
    /\ UNCHANGED auxVars

\* the handles of the sessions a connection touched, flushed and closed
RECURSIVE CloseWriters(_, _)
CloseWriters(writers, sids) ==
    IF sids = {} THEN writers
    ELSE LET sid == CHOOSE x \in sids : TRUE
             w == IF writers[sid] = Null THEN writers
                  ELSE [writers EXCEPT ![sid] = Some([Val(@) EXCEPT !.open = FALSE])]
         IN CloseWriters(w, sids \ {sid})

\* ws.receive() returns None: the loop breaks and the csv handles are closed
Close(c) ==
    /\ conns[c].pc = "open"
    /\ conns' = [conns EXCEPT ![c].pc = "closed"]
    /\ session_csv_writers' = CloseWriters(session_csv_writers, conns[c].touched_sessions)
    /\ UNCHANGED <<session_store, last_recv>>
    /\ UNCHANGED trackerVars
    /\ UNCHANGED auxVars

\* ws.receive() raises because the peer is gone: stream() ends without
\* reaching the code after the loop
Disconnect(c) ==
    /\ conns[c].pc = "open"
    /\ conns' = [conns EXCEPT ![c].pc = "closed"]
    /\ UNCHANGED <<session_store, session_csv_writers, last_recv>>
    /\ UNCHANGED trackerVars
    /\ UNCHANGED auxVars

NextStream ==
    \/ \E c \in Conns : Connect(c)
    \/ \E c \in Conns, m \in Messages : Receive(c, m)
    \/ \E c \in Conns : Close(c)
    \/ \E c \in Conns : Disconnect(c)

SpecStream == Init /\ [][NextStream]_vars

\* --------------------------------------------- /stream with two sessions
\* JSON messages for two session ids and for the local processor, with and
\* without a frame-rate override, and a plain base64 frame
SessionMessages ==
    {JsonMsg(TRUE, TRUE, Null, Null, Some("s1"), B64(TRUE, Some(FrameRight))),
     JsonMsg(TRUE, TRUE, Some(15), Null, Some("s1"), B64(TRUE, Some(FrameLeft))),
     JsonMsg(TRUE, TRUE, Null, Null, Some("s2"), B64(TRUE, Some(FrameRight))),
     JsonMsg(TRUE, TRUE, Some(15), Null, Some("s2"), B64(TRUE, Some(FrameRight))),
     JsonMsg(TRUE, TRUE, Null, Null, Null, B64(TRUE, Some(FrameRight))),
     JsonMsg(TRUE, TRUE, Some(15), Some(60), Some("s1"), B64(TRUE, Some(FrameRight))),
     TextMsg(B64(TRUE, Some(FrameRight)))}

\* frame_idx of the tracker the message is for, before the call
TargetFrameIdx(c, session_id) ==
    IF session_id = Null THEN Val(conns[c].processor).frame_idx
    ELSE IF session_store[Val(session_id)] = Null THEN 0
    ELSE Val(session_store[Val(session_id)]).frame_idx

\* one iteration of the loop, and what the message asked for
ReceiveTagged(c, m) ==
    /\ Recv(c, m)
    /\ last_msg' = Some([conn |-> c,
                         session_id |-> SessionIdOf(m),
                         fps |-> decode_ws_message(m).fps_override,
                         timestamp |-> decode_ws_message(m).timestamp,
                         json |-> m.kind = "str" /\ m.json,
                         frame_idx |-> TargetFrameIdx(c, SessionIdOf(m))])
    /\ UNCHANGED <<in_frame, pivot_log, stats_in, stats_out, batch>>

NextSessions ==
    \/ \E c \in Conns : Connect(c)
    \/ \E c \in Conns, m \in SessionMessages : ReceiveTagged(c, m)

SpecSessions == Init /\ [][NextSessions]_vars

\* ------------------------------------------- /stream loops run by threads
\* Every connection runs stream() in a thread of its own, so one loop can be
\* inside process_frame (line 100) while another loop runs.  The call is split
\* where it reads frame_idx for tiempo_s (line 245) and where it returns.

\* JSON messages with a frame, for the session and for the local processor
ThreadMessages ==
    {JsonMsg(TRUE, TRUE, Null, Null, Some("s1"), B64(TRUE, Some(FrameRight))),
     JsonMsg(TRUE, TRUE, Null, Null, Some("s1"), B64(TRUE, Some(FrameLeft))),
     JsonMsg(TRUE, TRUE, Null, Null, Null, B64(TRUE, Some(FrameRight)))}

\* the processor a pending call works on
TargetOf(c, session_id) ==
    IF session_id # Null THEN Val(session_store[Val(session_id)])
    ELSE Val(conns[c].processor)

\* lines 76-100: receive, decode, select the target, enter process_frame
BeginFrame(c, m) ==
    /\ conns[c].pc = "open"
    /\ in_frame[c] = Null
    /\ SumReceived(Conns) < MaxMsgs
    /\ LET dec == decode_ws_message(m)
           session_id == SessionIdOf(m)
           local == ApplyFps(Val(conns[c].processor), dec.fps_override)
           store1 == IF session_id # Null
                     THEN SetDefault(session_store, Val(session_id), local)
                     ELSE session_store
           target == IF session_id # Null THEN Val(store1[Val(session_id)]) ELSE local
       IN /\ ~dec.raised /\ dec.frame # Null
          /\ conns' = [conns EXCEPT ![c].received = @ + 1,
                                    ![c].processor = Some(local),
                                    ![c].touched_sessions =
                                        IF session_id # Null THEN @ \cup {Val(session_id)} ELSE @]
          /\ session_store' = store1
          /\ in_frame' = [in_frame EXCEPT ![c] =
                            Some([session_id |-> session_id,
                                  frame |-> Val(dec.frame),
                                  tiempo_s |-> tiempo_s(target, dec.timestamp)])]
    /\ UNCHANGED <<session_csv_writers, last_recv>>
    /\ UNCHANGED trackerVars
    /\ UNCHANGED <<pivot_log, stats_in, stats_out, last_msg, batch>>

\* lines 100-121: process_frame returns, the csv row is written, the reply sent
EndFrame(c) ==
    /\ in_frame[c] # Null
    /\ LET call == Val(in_frame[c])
           session_id == call.session_id
           res == process_frame(TargetOf(c, session_id), call.frame, Some(call.tiempo_s))
           writers1 == IF session_id # Null
                       THEN OpenWriter(session_csv_writers, Val(session_id))
                       ELSE session_csv_writers
           writes == session_id # Null /\ res.self.records # <<>>
           closed == writes /\ ~Val(writers1[Val(session_id)]).open
       IN /\ conns' = [conns EXCEPT
                          ![c].processor = IF session_id # Null THEN @ ELSE Some(res.self),
                          ![c].pc = IF closed THEN "crashed" ELSE "open",
                          ![c].sent = IF closed THEN @
                                      ELSE Append(@, [kind |-> "json", info |-> res.info,
                                                      session_id |-> session_id])]
          /\ session_store' = IF session_id # Null
                              THEN [session_store EXCEPT ![Val(session_id)] = Some(res.self)]
                              ELSE session_store
          /\ session_csv_writers' =
                IF writes /\ ~closed
                THEN [writers1 EXCEPT ![Val(session_id)] =
                        Some([Val(@) EXCEPT !.rows =
                                Append(@, res.self.records[Len(res.self.records)])])]
                ELSE writers1
          /\ in_frame' = [in_frame EXCEPT ![c] = Null]
    /\ UNCHANGED last_recv
    /\ UNCHANGED trackerVars
    /\ UNCHANGED <<pivot_log, stats_in, stats_out, last_msg, batch>>

NextThreads ==
    \/ \E c \in Conns : Connect(c)
    \/ \E c \in Conns, m \in ThreadMessages : BeginFrame(c, m)
    \/ \E c \in Conns : EndFrame(c)

SpecThreads == Init /\ [][NextThreads]_vars

\* ------------------------------------------------------------- properties
\* the side of a deviation as section 4.4 of the specification states it
SideOfDeviation(dx) ==
    CASE dx > DEAD_ZONE * CScale -> 1
      [] dx < 0 - DEAD_ZONE * CScale -> -1
      [] OTHER -> 0

\* the sides of the logged detections
SidesLog == [i \in 1..Len(dx_log) |-> SideOfDeviation(dx_log[i])]

\* the nonzero entries of a sequence of sides, in order
NonzeroSides(s) == SelectSeq(s, LAMBDA v : v # 0)

\* the number of positions where a sequence changes value
Changes(s) == Cardinality({i \in 1..(Len(s) - 1) : s[i] # s[i + 1]})

LastCall == Val(last_call)

\* C1: after N calls of process_frame, whatever each frame's pivot and ball
\* detection outcome, frame_idx equals N (one info record is returned per call).
C1_FrameIdxCountsCalls == proc.frame_idx = Len(infos)

C1_Witness ==
    /\ proc.frame_idx >= 3
    /\ Len(proc.records) >= 1
    /\ Len(proc.records) < proc.frame_idx

\* C2: across process_frame calls the oscillation count never decreases, neither
\* in the processor nor in the 'oscillations' value of successive info records.
C2_OscillationsMonotone ==
    [][/\ proc'.oscillations >= proc.oscillations
       /\ (info # Null => Val(info').oscillations >= Val(info).oscillations)]_vars

C2_Witness ==
    /\ Len(infos) >= 4
    /\ infos[1] = 0
    /\ \E i \in 1..Len(infos) : infos[i] = 1
    /\ proc.oscillations = 2

\* C3: sign_changes equals the number of changes between consecutive nonzero
\* sides of the detected positions (dead-zone detections ignored, the first
\* nonzero side counts nothing), so 4 side changes give exactly 2 oscillations.
C3_SignChangesCountSideChanges ==
    /\ proc.sign_changes = Changes(NonzeroSides(SidesLog))
    /\ (Changes(NonzeroSides(SidesLog)) = 4 => proc.oscillations = 2)

C3_Witness ==
    /\ Changes(NonzeroSides(SidesLog)) = 4
    /\ proc.oscillations = 2

\* C4: while every detection stays inside the dead zone (|x - center_x| <= 5),
\* sign_changes and the oscillation count stay 0, however the sign of the
\* deviation flips.
C4_DeadZoneNeverCounts ==
    (\A i \in 1..Len(dx_log) : Abs(dx_log[i]) <= DEAD_ZONE * CScale)
        => (proc.sign_changes = 0 /\ proc.oscillations = 0)

C4_Witness ==
    /\ Len(dx_log) >= 4
    /\ \A i \in 1..Len(dx_log) : Abs(dx_log[i]) <= DEAD_ZONE * CScale
    /\ Changes([i \in 1..Len(dx_log) |-> dx_log[i] > 0]) >= 3

\* C5: a detection inside the dead zone leaves last_side and sign_changes
\* unchanged and a detection outside it commits its side; so passing through
\* the dead zone to the other side counts exactly one sign change and coming
\* back to the same side counts none.
C5_DeadZoneKeepsCommittedSide ==
    [][Len(dx_log') = Len(dx_log) + 1 =>
        LET s == SideOfDeviation(dx_log'[Len(dx_log')])
            before == NonzeroSides(SidesLog)
            through == dx_log # <<>> /\ SideOfDeviation(dx_log[Len(dx_log)]) = 0
                       /\ before # <<>>
        IN /\ (s = 0 => /\ proc'.last_side = proc.last_side
                        /\ proc'.sign_changes = proc.sign_changes)
           /\ (s # 0 => proc'.last_side = s)
           /\ (through /\ s # 0 /\ before[Len(before)] # s
                  => proc'.sign_changes = proc.sign_changes + 1)
           /\ (through /\ s # 0 /\ before[Len(before)] = s
                  => proc'.sign_changes = proc.sign_changes)]_vars

C5_Witness ==
    /\ \E i \in 1..(Len(dx_log) - 2) :
          /\ SidesLog[i] # 0 /\ SidesLog[i + 1] = 0 /\ SidesLog[i + 2] = 0 - SidesLog[i]
    /\ \E i \in 1..(Len(dx_log) - 2) :
          /\ SidesLog[i] # 0 /\ SidesLog[i + 1] = 0 /\ SidesLog[i + 2] = SidesLog[i]
    /\ proc.sign_changes = 1

\* C6: a call that detects no object (no contour, largest contour area not above
\* 100, or pivot centre still null) appends no sample, returns null x, y and
\* radius, leaves last_side, sign_changes and oscillations unchanged, and still
\* advances frame_idx by one.
C6_NoDetectionOnlyAdvances ==
    [][(LET c == Val(last_call')
        IN c.contours = 0 \/ ~c.big \/ ~c.pivot) =>
          /\ proc'.records = proc.records
          /\ proc'.time_series = proc.time_series
          /\ proc'.x_series = proc.x_series
          /\ proc'.y_series = proc.y_series
          /\ Val(info').x = Null /\ Val(info').y = Null /\ Val(info').radius = Null
          /\ proc'.last_side = proc.last_side
          /\ proc'.sign_changes = proc.sign_changes
          /\ proc'.oscillations = proc.oscillations
          /\ proc'.frame_idx = proc.frame_idx + 1]_vars

C6_Witness ==
    /\ last_call # Null
    /\ LastCall.contours > 0 /\ ~LastCall.big /\ LastCall.pivot
    /\ Val(info).x = Null
    /\ proc.sign_changes >= 1
    /\ proc.frame_idx > Len(proc.records) + 1

\* C7: a call appends a sample exactly when center_x is non-null after that
\* call's pivot step and the largest object contour has area above 100; no
\* sample exists while center_x has never been established.
C7_SampleIffPivotAndBall ==
    [][LET c == Val(last_call')
       IN /\ (c.pivot /\ c.big => /\ Len(proc'.records) = Len(proc.records) + 1
                                  /\ SubSeq(proc'.records, 1, Len(proc.records)) = proc.records)
          /\ (~(c.pivot /\ c.big) => proc'.records = proc.records)
          /\ (proc'.center_x = Null => proc'.records = <<>>)]_vars

C7_Witness ==
    /\ proc.frame_idx = 1
    /\ Len(proc.records) = 1
    /\ LastCall.pivot /\ LastCall.big

\* C8: time_s strictly increases along the sample list (records and
\* time_series), with or without caller-supplied timestamps.
C8_TimeStrictlyIncreases ==
    /\ \A i \in 1..(Len(proc.records) - 1) : proc.records[i][2] < proc.records[i + 1][2]
    /\ \A i \in 1..(Len(proc.time_series) - 1) : proc.time_series[i] < proc.time_series[i + 1]

\* the trackers of a state: every connection's local processor and the store
Trackers(cs, store) == <<[c \in Conns |-> cs[c].processor], store>>

\* C9: a message whose frame cannot be decoded is answered with a decode
\* failure before process_frame runs and leaves every tracker unchanged.
C9_UndecodableReportedBeforeTracker ==
    [][\A c \in Conns :
        (conns'[c].received = conns[c].received + 1 /\ ~Val(last_recv').carries_frame) =>
          /\ ~Val(last_recv').entered
          /\ conns'[c].sent = Append(conns[c].sent, [kind |-> "error"])
          /\ Trackers(conns', session_store') = Trackers(conns, session_store)]_vars

\* C10: a single bad message (undecodable bytes, invalid base64, JSON without
\* 'frame', valid base64 that is not an image) never ends the loop: the
\* connection replies, stays open for the following messages and the session
\* state is intact.
C10_BadMessageKeepsLoopRunning ==
    [][\A c \in Conns :
        (conns'[c].received = conns[c].received + 1 /\ ~Val(last_recv').carries_frame) =>
          /\ conns'[c].pc = "open"
          /\ Len(conns'[c].sent) = Len(conns[c].sent) + 1
          /\ session_store' = session_store
          /\ session_csv_writers' = session_csv_writers]_vars

\* the data rows of a session's csv: everything after the header row
DataRows(sid) == Tail(Val(session_csv_writers[sid]).rows)

\* C11: a data row is written for a frame only if that frame had a successful
\* detection, so the rows of a session's csv are exactly the samples of that
\* session's tracker, one row per sample and in the same order.
C11_CsvRowsAreTheSamples ==
    \A sid \in SessionIds :
        session_csv_writers[sid] # Null =>
            DataRows(sid) = Val(session_store[sid]).records

\* C12: no PendulumProcessor is inside process_frame for two messages at the
\* same time and no tracker is used by two open connections, also when both
\* send frames with the same session_id.
C12_OneCallPerTracker ==
    \A c1, c2 \in Conns :
        c1 # c2 =>
          /\ (in_frame[c1] # Null /\ in_frame[c2] # Null /\ Val(in_frame[c1]).session_id # Null
                 => Val(in_frame[c1]).session_id # Val(in_frame[c2]).session_id)
          /\ (conns[c1].pc = "open" /\ conns[c2].pc = "open"
                 => conns[c1].touched_sessions \cap conns[c2].touched_sessions = {})

\* ---- the pivot of a frame, as section 4.2 of the specification states it
\* the marker candidates of a frame: contours of area >= 10
Candidates(frame) ==
    {i \in 1..Len(frame.markers) : frame.markers[i].area >= MIN_MARKER_AREA}

HasMeasure(frame) == Cardinality(Candidates(frame)) >= 2

\* midpoint of the leftmost and the rightmost candidate, in units of 1/CScale
Midpoint(frame) ==
    LET xs == {frame.markers[i].cx : i \in Candidates(frame)}
        lo == CHOOSE x \in xs : \A z \in xs : x <= z
        hi == CHOOSE x \in xs : \A z \in xs : x >= z
    IN ((lo + hi) * CScale) \div 2

\* the white boxes wider than 40% of the frame and lower than 30 px
Qualifying(frame) ==
    {i \in 1..Len(frame.whites) :
        /\ 5 * frame.whites[i].ww > 2 * frame.width
        /\ frame.whites[i].hw < MAX_LINE_HEIGHT}

\* vertical midpoint of the widest qualifying box (the first of them)
LineMidpoint(frame) ==
    LET q == Qualifying(frame)
        i == CHOOSE j \in q : \A k \in q : \/ frame.whites[j].ww > frame.whites[k].ww
                                          \/ (frame.whites[j].ww = frame.whites[k].ww /\ j <= k)
    IN frame.whites[i].yw + (frame.whites[i].hw \div 2)

MeasuringFrames == {i \in 1..Len(pivot_log) : HasMeasure(pivot_log[i])}

\* the number of frames at the end of the log that all measure the centre m
RECURSIVE TailRun(_, _)
TailRun(log, m) ==
    IF log = <<>> THEN 0
    ELSE IF HasMeasure(log[Len(log)]) /\ Midpoint(log[Len(log)]) = m
         THEN 1 + TailRun(SubSeq(log, 1, Len(log) - 1), m)
         ELSE 0

\* the largest distance between two measured centres of the frames used
Span ==
    LET ms == {Midpoint(f) : f \in {g \in PivotFrames : HasMeasure(g)}}
    IN CHOOSE v \in {Abs(a - b) : a \in ms, b \in ms} :
          \A a \in ms, b \in ms : Abs(a - b) <= v

NewFrame == pivot_log'[Len(pivot_log')]

\* C13: after the first frame with at least 2 marker candidates center_x is
\* exactly the midpoint of the leftmost and the rightmost marker, and it keeps
\* that value while no later frame has at least 2 candidates; before that
\* frame center_x is null.
C13_FirstMeasureSeedsCenter ==
    /\ (MeasuringFrames = {} => proc.center_x = Null)
    /\ (Cardinality(MeasuringFrames) = 1 =>
          \A i \in MeasuringFrames : proc.center_x = Some(Midpoint(pivot_log[i])))

C13_Witness ==
    /\ Cardinality(MeasuringFrames) = 1
    /\ \E i \in MeasuringFrames :
          /\ i > 1 /\ i + 2 <= Len(pivot_log)
          /\ Cardinality(Candidates(pivot_log[i])) < Len(pivot_log[i].markers)
          /\ Cardinality(Candidates(pivot_log[i + 1])) = 1
    /\ proc.center_x # Null

\* C14: a frame that measures the centre m on an established pivot multiplies
\* |center_x - m| by 0.8 (it never grows); after k frames in a row measuring m
\* the distance is at most 0.8^(k-1) times the largest distance between two
\* measured centres; when every measurement so far was m, center_x equals m.
C14_SmoothingContracts ==
    [][Len(pivot_log') = Len(pivot_log) + 1 /\ HasMeasure(NewFrame) =>
        LET m == Midpoint(NewFrame)
            k == TailRun(pivot_log', m)
            after == Abs(Val(proc'.center_x) - m)
        IN /\ (proc.center_x # Null =>
                 /\ AlphaDen * after = AlphaNum * Abs(Val(proc.center_x) - m)
                 /\ after <= Abs(Val(proc.center_x) - m))
           /\ after * (AlphaDen ^ (k - 1)) <= Span * (AlphaNum ^ (k - 1))
           /\ (k = Cardinality({i \in 1..Len(pivot_log') : HasMeasure(pivot_log'[i])})
                 => after = 0)]_vars

C14_Witness ==
    /\ Len(pivot_log) >= 5
    /\ HasMeasure(pivot_log[1])
    /\ \E m \in {Midpoint(f) : f \in {g \in PivotFrames : HasMeasure(g)}} :
          /\ Midpoint(pivot_log[1]) # m
          /\ TailRun(pivot_log, m) = Len(pivot_log) - 1
          /\ Abs(Val(proc.center_x) - m) > 0
          /\ 2 * Abs(Val(proc.center_x) - m) < Span

\* C15: a frame with fewer than 2 marker candidates leaves center_x unchanged,
\* a frame with no qualifying line leaves line_y unchanged, each whatever the
\* other does, and a qualifying line sets line_y to its vertical midpoint,
\* unsmoothed.
C15_PivotFieldsHoldIndependently ==
    [][Len(pivot_log') = Len(pivot_log) + 1 =>
        /\ (~HasMeasure(NewFrame) => proc'.center_x = proc.center_x)
        /\ (HasMeasure(NewFrame) => proc'.center_x # Null)
        /\ (Qualifying(NewFrame) = {} => proc'.line_y = proc.line_y)
        /\ (Qualifying(NewFrame) # {} => proc'.line_y = Some(LineMidpoint(NewFrame)))]_vars

C15_Witness ==
    /\ Len(pivot_log) >= 4
    /\ proc.center_x # Null /\ proc.line_y # Null
    /\ \E i, j, k \in 2..Len(pivot_log) :
          /\ HasMeasure(pivot_log[i]) /\ Qualifying(pivot_log[i]) = {}
          /\ ~HasMeasure(pivot_log[j]) /\ Qualifying(pivot_log[j]) # {}
          /\ k > j /\ Qualifying(pivot_log[k]) # {}
          /\ LineMidpoint(pivot_log[k]) # LineMidpoint(pivot_log[j])
          /\ pivot_log[Len(pivot_log)].whites # <<>> /\ Qualifying(pivot_log[Len(pivot_log)]) = {}

\* ---- the statistics pass
StatsFns == {"get_stats", "_compute_physical_stats", "compute_stats"}

Applied(fns) == stats_out # Null /\ Val(stats_out).fn \in fns

Result == Val(stats_out).result

SampleCount == Len(stats_in.times)

\* how many entries of the list s equal v
HowMany(s, v) == Cardinality({i \in 1..Len(s) : s[i] = v})

\* C16: every statistics entry point returns the null result, and does not
\* raise, on 0, 1 or 2 samples.
C16_FewSamplesGiveNull ==
    Applied(StatsFns) /\ SampleCount < 3 => Result.kind = "none"

\* C17: with fewer than 2 zero crossings period, frequency and
\* angular_frequency are null and the other statistics are returned; frequency
\* and angular_frequency are null exactly when period is null or <= 0, and
\* otherwise they are 1/period and 2 pi/period.
C17_PeriodNeedsTwoCrossings ==
    Applied(StatsFns) /\ SampleCount >= 3 =>
        LET r == Result
            crossings == _zero_crossings(stats_in.times, stats_in.theta)
        IN /\ r.kind = "stats"
           /\ r.samples = SampleCount
           /\ r.oscillations_x2 = Len(crossings)
           /\ r.total_time = stats_in.times[SampleCount] - stats_in.times[1]
           /\ (Len(crossings) < 2 =>
                 r.period = Null /\ r.frequency = Null /\ r.angular_frequency = Null)
           /\ (r.frequency = Null <=> (r.period = Null \/ Val(r.period) <= 0))
           /\ (r.angular_frequency = Null <=> (r.period = Null \/ Val(r.period) <= 0))
           /\ (r.frequency # Null =>
                 /\ Val(r.frequency) = [num |-> CrossScale, den |-> Val(r.period)]
                 /\ Val(r.angular_frequency) = [num_pi |-> 2 * CrossScale, den |-> Val(r.period)])

C17_Witness ==
    /\ Applied({"_compute_physical_stats"})
    /\ SampleCount >= 4
    /\ Len(_zero_crossings(stats_in.times, stats_in.theta)) = 1
    /\ Result.kind = "stats"
    /\ Result.period = Null /\ Result.frequency = Null
    /\ Result.samples = SampleCount

\* C18: a zero sample with nonzero neighbours on both sides contributes
\* exactly one entry, at its own time, to the list _zero_crossings returns.
C18_ZeroSampleIsOneCrossing ==
    Applied({"_zero_crossings"}) =>
        \A i \in 2..(SampleCount - 1) :
            (stats_in.theta[i] = 0 /\ stats_in.theta[i - 1] # 0 /\ stats_in.theta[i + 1] # 0)
                => HowMany(Result, stats_in.times[i]) = 1

\* the window section 4.5 of the specification gives for n samples
LargestOddBelow(n) == IF (n - 1) % 2 = 1 THEN n - 1 ELSE n - 2

ExpectedWindow(n) ==
    LET default == IF n > 50 THEN 41 ELSE 9
    IN IF default >= n THEN LargestOddBelow(n) ELSE default

\* C19: every smoother that chooses its own window for n samples chooses 41
\* if n > 50 and 9 otherwise, reduced to the largest odd value strictly less
\* than n when that default is not smaller than n.
C19_WindowIsLargestOddBelowCount ==
    (Applied({"_savgol_or_original", "_savgol", "graficar"}) /\ stats_in.window = Null
        /\ Result.window # Null)
        => Val(Result.window) = ExpectedWindow(Len(stats_in.theta))

\* C20: a smoother whose window comes out below 5 (or that has fewer than 5
\* samples) returns its input, element for element, without calling the
\* filter; the filter is only ever called with a window of at least 5.
C20_ShortSeriesPassThrough ==
    Applied({"_savgol_or_original", "_savgol"}) =>
        LET r == Result
        IN /\ (Len(stats_in.theta) < POLYORDER + 2 => ~r.called)
           /\ ((r.window = Null \/ Val(r.window) < POLYORDER + 2) => ~r.called)
           /\ (~r.called => r.values = stats_in.theta)
           /\ (r.called => r.values = savgol_filter(stats_in.theta, Val(r.window)))

C20_Witness ==
    /\ Applied({"_savgol"})
    /\ Len(stats_in.theta) = 4
    /\ stats_in.theta[1] # stats_in.theta[2]
    /\ Result.window = Some(3)
    /\ ~Result.called
    /\ Result.values = stats_in.theta

\* C21: the time_s of a frame is the caller's timestamp whenever one is given
\* (the value 0 included), otherwise frame_idx / fps when fps is nonzero,
\* otherwise frame_idx; the info record and the sample carry the same value.
C21_TimeOfFrame ==
    [][proc'.frame_idx = proc.frame_idx + 1 =>
        LET ts == Val(last_call').timestamp
            expected == IF ts # Null THEN Val(ts)
                        ELSE IF proc.fps # 0 THEN (proc.frame_idx * TimeScale) \div proc.fps
                        ELSE proc.frame_idx * TimeScale
        IN /\ Val(info').time_s = expected
           /\ (Val(last_call').detected =>
                 /\ Len(proc'.records) = Len(proc.records) + 1
                 /\ proc'.records[Len(proc'.records)][2] = expected
                 /\ proc'.time_series[Len(proc'.time_series)] = expected)]_vars

C21_Witness ==
    /\ proc.frame_idx >= 3
    /\ last_call # Null /\ Val(last_call).timestamp = Some(0) /\ Val(last_call).detected
    /\ Val(info).time_s = 0
    /\ proc.records[Len(proc.records)][2] = 0
    /\ proc.records[Len(proc.records)][1] = proc.frame_idx - 1

\* a tracker without its frame rate: frame_idx, pivot, counter state, samples
Core(o) == IF o = Null THEN Null ELSE Some([Val(o) EXCEPT !.fps = DEFAULT_FPS])

Handling(c) == conns'[c].received = conns[c].received + 1

\* C22: a frame tagged with session_id S changes only the tracker stored for
\* S (which it does change); the trackers of the other session ids and every
\* connection-local tracker keep frame_idx, pivot, counter state and samples;
\* a frame without session_id changes only the local tracker of its connection.
C22_OnlyTargetTrackerChanges ==
    [][\A c \in Conns : Handling(c) =>
        LET S == Val(last_msg').session_id
        IN /\ \A d \in Conns : d # c => conns'[d].processor = conns[d].processor
           /\ (S # Null =>
                 /\ Core(conns'[c].processor) = Core(conns[c].processor)
                 /\ \A sid \in SessionIds \ {Val(S)} : session_store'[sid] = session_store[sid]
                 /\ session_store'[Val(S)] # session_store[Val(S)])
           /\ (S = Null =>
                 /\ session_store' = session_store
                 /\ conns'[c].processor # conns[c].processor)]_vars

C22_Witness ==
    /\ last_msg # Null /\ Val(last_msg).session_id = Some("s2")
    /\ session_store["s1"] # Null /\ Val(session_store["s1"]).records # <<>>
    /\ session_store["s2"] # Null /\ Val(session_store["s2"]).records # <<>>
    /\ \E c \in Conns : conns[c].pc = "open" /\ Val(conns[c].processor).frame_idx > 0

\* C29: a JSON message with a frame-rate override, a session_id and no
\* timestamp gets time_s = frame_idx / fps with the fps of that message, also
\* when the tracker of the session already existed.
C29_OverrideSetsSessionFps ==
    [][\A c \in Conns : Handling(c) =>
        LET msg == Val(last_msg')
        IN (msg.session_id # Null /\ msg.fps # Null /\ Val(msg.fps) # 0 /\ msg.timestamp = Null)
             => conns'[c].sent[Len(conns'[c].sent)].info.time_s
                   = (msg.frame_idx * TimeScale) \div Val(msg.fps)]_vars

C24_GetStatsReadsOnly ==
    [][(stats_out' # stats_out /\ Val(stats_out').fn = "get_stats") => proc' = proc]_vars

C24_Witness ==
    /\ Applied({"get_stats"})
    /\ SampleCount >= 3
    /\ Result.kind = "stats" /\ Result.period # Null
    /\ proc = TrackerWith(stats_in)
    /\ Len(proc.records) = SampleCount

Given(o) == o # Null /\ Val(o) # 0

C26_OscillationsAreHalfTheChanges ==
    /\ [](proc.oscillations = proc.sign_changes \div 2)
    /\ [][proc'.sign_changes \in {proc.sign_changes, proc.sign_changes + 1}]_vars

C26_Witness ==
    /\ proc.sign_changes = 3
    /\ proc.oscillations = 1
    /\ LastCall.detected
    /\ proc.frame_idx > Len(proc.records)

IsPrefix(a, b) == Len(a) <= Len(b) /\ SubSeq(b, 1, Len(a)) = a

\* C30: records, time_series, x_series and y_series always have the same
\* length, records[i] holds time_series[i], x_series[i] and y_series[i], and
\* the four lists only grow by appending.
C30_SeriesMirrorRecords ==
    /\ [](/\ Len(proc.time_series) = Len(proc.records)
          /\ Len(proc.x_series) = Len(proc.records)
          /\ Len(proc.y_series) = Len(proc.records)
          /\ \A i \in 1..Len(proc.records) :
                /\ proc.records[i][2] = proc.time_series[i]
                /\ proc.records[i][3] = proc.x_series[i]
                /\ proc.records[i][4] = proc.y_series[i])
    /\ [][/\ IsPrefix(proc.records, proc'.records)
          /\ IsPrefix(proc.time_series, proc'.time_series)
          /\ IsPrefix(proc.x_series, proc'.x_series)
          /\ IsPrefix(proc.y_series, proc'.y_series)
          /\ Len(proc'.records) <= Len(proc.records) + 1]_vars

C30_Witness ==
    /\ Len(proc.records) >= 3
    /\ proc.frame_idx > Len(proc.records)
    /\ proc.time_series[2] < proc.time_series[1]
    /\ proc.records[3][2] = proc.time_series[3]

LastReply(c) == conns'[c].sent[Len(conns'[c].sent)]

\* C27: every received message gets exactly one reply, appended in arrival
\* order: an error for a message whose frame cannot be decoded, otherwise the
\* processed frame (as JSON or as bare base64).
C27_OneReplyPerMessage ==
    [][\A c \in Conns : Handling(c) =>
        /\ Len(conns'[c].sent) = Len(conns[c].sent) + 1
        /\ SubSeq(conns'[c].sent, 1, Len(conns[c].sent)) = conns[c].sent
        /\ (~Val(last_recv').carries_frame => LastReply(c).kind = "error")
        /\ (Val(last_recv').carries_frame => LastReply(c).kind \in {"json", "frame"})]_vars

\* C28: a message that carries a frame is processed and answered without an
\* error, also when its session_id was used by a connection that has closed:
\* the row goes to an open file and the loop stays open.
C28_RowsGoToOpenFiles ==
    [][\A c \in Conns : (Handling(c) /\ Val(last_recv').carries_frame) =>
        /\ conns'[c].pc = "open"
        /\ \A sid \in conns'[c].touched_sessions :
              session_csv_writers'[sid] # session_csv_writers[sid]
                 => Val(session_csv_writers'[sid]).open]_vars

\* C31: the frame indices stored in records are strictly increasing and each
\* is smaller than the current frame_idx; a record appended by a call carries
\* the frame_idx the call started with, and a call appends at most one.
C31_OneSamplePerFrame ==
    /\ [](/\ \A i \in 1..Len(proc.records) : proc.records[i][1] < proc.frame_idx
          /\ \A i \in 1..(Len(proc.records) - 1) :
                proc.records[i][1] < proc.records[i + 1][1])
    /\ [][/\ Len(proc'.records) \in {Len(proc.records), Len(proc.records) + 1}
          /\ (Len(proc'.records) = Len(proc.records) + 1 =>
                proc'.records[Len(proc'.records)][1] = proc.frame_idx)]_vars

C31_Witness ==
    /\ Len(proc.records) >= 2
    /\ proc.records[1][1] > 0
    /\ proc.records[2][1] > proc.records[1][1] + 1
    /\ proc.frame_idx > proc.records[2][1] + 1

\* C32: once center_x is non-null it stays non-null, and likewise line_y, so
\* whenever a sample exists center_x is non-null.
C32_PivotNeverForgotten ==
    /\ [](proc.records # <<>> => proc.center_x # Null)
    /\ [][/\ (proc.center_x # Null => proc'.center_x # Null)
          /\ (proc.line_y # Null => proc'.line_y # Null)]_vars

C32_Witness ==
    /\ Len(pivot_log) >= 4
    /\ HasMeasure(pivot_log[1]) /\ Qualifying(pivot_log[1]) # {}
    /\ \A i \in 2..Len(pivot_log) : ~HasMeasure(pivot_log[i]) /\ Qualifying(pivot_log[i]) = {}
    /\ proc.records # <<>>
    /\ proc.center_x # Null /\ proc.line_y # Null

\* C33: for every sample count n, when _savgol_or_original or _savgol with
\* the default window calls the filter, the window is odd, at least 5 and at
\* most n; otherwise the input is returned and the filter is not called.
C33_FilterWindowIsUsable ==
    (Applied({"_savgol_or_original", "_savgol"}) /\ stats_in.window = Null) =>
        LET r == Result
            n == Len(stats_in.theta)
        IN IF r.called
           THEN /\ Val(r.window) % 2 = 1
                /\ Val(r.window) >= 5
                /\ Val(r.window) <= n
                /\ r.values.window_length = Val(r.window)
                /\ r.values.filtered = stats_in.theta
           ELSE r.values = stats_in.theta

C33_Witness ==
    /\ Applied({"_savgol_or_original"})
    /\ Len(stats_in.theta) = 7
    /\ Result.called
    /\ Result.window = Some(7)

\* what the batch loop and the tracker are compared on
BatchState(g) ==
    <<g.frame_idx, g.center_x, g.line_y, g.last_side, g.sign_changes, g.oscillations>>

BatchRows(g) == SubSeq(g.csv_rows, 2, Len(g.csv_rows))

\* C34 as stated: for the same frames, a nonzero fps and no timestamps, the
\* batch loop of main.py and repeated calls of process_frame are in the same
\* (frame index, center_x, line_y, last_side, sign_changes, oscillations)
\* state after every frame and have produced the same sample rows.
C34_BatchMatchesTracker ==
    batch # Null =>
        /\ BatchState(Val(batch)) = BatchState(proc)
        /\ BatchRows(Val(batch)) = proc.records

\* C34, amended: the sample rows and the centre, line, side and count fields
\* are the same after every frame; the frame index is the same after every
\* frame that does not end with the "q" key, and after the frame that does,
\* main.py's frame index is one less than the tracker's.
C34_BatchMatchesTrackerUntilQuit ==
    batch # Null =>
        LET g == Val(batch)
        IN /\ BatchRows(g) = proc.records
           /\ <<g.center_x, g.line_y, g.last_side, g.sign_changes, g.oscillations>>
                = <<proc.center_x, proc.line_y, proc.last_side,
                    proc.sign_changes, proc.oscillations>>
           /\ <<g.time_series, g.x_series, g.y_series>>
                = <<proc.time_series, proc.x_series, proc.y_series>>
           /\ (~g.quit => g.frame_idx = proc.frame_idx)
           /\ (g.quit => g.frame_idx + 1 = proc.frame_idx)

C34_Witness ==
    /\ batch # Null
    /\ Val(batch).quit
    /\ Len(Val(batch).csv_rows) >= 4
    /\ Val(batch).oscillations >= 1
    /\ Val(batch).line_y = Some(61)
    /\ Val(batch).csv_rows[2][1] > 0
    /\ proc.frame_idx = Val(batch).frame_idx + 1

====
